---- MODULE Spec2Model ----
(***************************************************************************)
(* QuickQuote offline pipeline: the Sync Service (syncService.ts, lines    *)
(* 1-277), the Queue Service (same file, lines 279-549) and the queue and  *)
(* draft tables they use (database service, schema.ts).                    *)
(*                                                                         *)
(* Every asynchronous function is a task that moves from one await to the  *)
(* next; one action is the code that runs between two suspension points.   *)
(***************************************************************************)
EXTENDS Integers, Sequences, FiniteSets, TLC

\* ---------------------------------------------------------------- constants
SYNC_DEBOUNCE_MS == 2000
MIN_SYNC_INTERVAL_MS == 30000
MAX_RETRIES == 3

\* ------------------------------------------------------------------- bounds
MaxTime == 31000
MaxBurstTime == 7000
MaxItems == 2
MaxFaults == 1
MaxBurst == 2
MaxPasses == 4
StartTime == {1000}
CoarseSteps == {15000}
FineSteps == {1000}
Tasks == {"t1", "t2"}
DraftIds == {"d1"}
Listeners == {"l1", "l2"}
Throwing == {"l1"}

VARIABLES
    syncState,            \* 'idle' | 'syncing' | 'completed' | 'error'
    lastSyncAt,           \* <<>> (null) or <<ms>>
    lastError,            \* <<>> (null) or <<message>>
    isAutoSyncEnabled,
    networkSubscription,  \* <<>> (null) or <<"sub">>
    syncDebounceTimeout,  \* <<>> (null) or <<timer handle>>
    listeners,            \* Set<SyncEventListener> in insertion order
    inbox,                \* what each listener callback was last called with
    now,                  \* Date.now()
    net,                  \* the device's network state
    subscriptions,        \* number of network state listeners held by the runtime
    timers,               \* timeouts scheduled in the runtime (by deadline)
    burst,                \* online changes collapsed into the pending timeout
    queue,                \* table queue: id -> row
    drafts,               \* table drafts: id -> row
    nextId,               \* next queue item id
    faults,               \* storage / probe failures still to come
    task                  \* the asynchronous calls in flight or returned

syncVars == <<syncState, lastSyncAt, lastError>>
autoVars == <<isAutoSyncEnabled, networkSubscription, syncDebounceTimeout, subscriptions, timers, burst>>
dbVars == <<queue, drafts, nextId>>
vars == <<syncState, lastSyncAt, lastError, isAutoSyncEnabled, networkSubscription,
          syncDebounceTimeout, listeners, inbox, now, net, subscriptions, timers,
          burst, queue, drafts, nextId, faults, task>>

\* ------------------------------------------------------------------ values
TruthyNum(v) == v # <<>> /\ v[1] # 0
TruthyStr(v) == v # <<>> /\ v[1] # ""

SyncStates == {"idle", "syncing", "completed", "error"}

NetStates ==
    { [isConnected |-> TRUE,  isInternetReachable |-> "true"],
      [isConnected |-> TRUE,  isInternetReachable |-> "null"],
      [isConnected |-> TRUE,  isInternetReachable |-> "false"],
      [isConnected |-> FALSE, isInternetReachable |-> "false"] }

IsOnline(isConnected, isInternetReachable) ==
    isConnected /\ isInternetReachable # "false"

EmptyResult == [processed |-> 0, failed |-> 0, total |-> 0, errors |-> <<>>]

NoRet == [kind |-> "none", val |-> <<>>]
Resolved(v) == [kind |-> "resolved", val |-> <<v>>]
Rejected(m) == [kind |-> "rejected", val |-> <<m>>]

SyncResult(success, processResult, error) ==
    [success |-> success, processResult |-> processResult, error |-> error]

NoCalls == [stt |-> 0, parse |-> 0]

\* draft: the draft processItem() loaded; calls: the client calls it has made;
\* passes: the processQueue() calls made so far
IdleTask ==
    [op |-> "none", pc |-> "idle", origin |-> "none", pendingItems |-> <<>>,
     i |-> 0, draft |-> <<>>, value |-> <<>>, error |-> <<>>, calls |-> NoCalls,
     result |-> EmptyResult, passes |-> 0, ret |-> NoRet]

Free(t) == task[t].pc \in {"idle", "done"}

Done(t, r) ==
    [IdleTask EXCEPT !.op = task[t].op, !.origin = task[t].origin, !.pc = "done",
                     !.passes = task[t].passes, !.ret = r]

\* ------------------------------------------------------------ sync service
GetSyncStatus(st, last, err, auto) ==
    [state |-> st, lastSyncAt |-> last, lastError |-> err, isAutoSyncEnabled |-> auto]

Deliver(inb, l, status) ==
    [inb EXCEPT ![l] = [status |-> <<status>>, seq |-> 1 - @.seq]]

RECURSIVE NotifyFrom(_, _, _, _)
NotifyFromAbort(ls, k, inb, status) ==
    IF k > Len(ls) THEN inb
    ELSE IF ls[k] \in Throwing THEN Deliver(inb, ls[k], status)
    ELSE NotifyFrom(ls, k + 1, Deliver(inb, ls[k], status), status)

NotifyFrom(ls, k, inb, status) ==
    IF k > Len(ls) THEN inb
    ELSE NotifyFrom(ls, k + 1, Deliver(inb, ls[k], status), status)

NotifyListeners(ls, inb, status) == NotifyFrom(ls, 1, inb, status)

UpdateStateBackToIdle(newState, error) ==
    /\ syncState' = IF newState \in {"completed", "error"} THEN "idle" ELSE newState
    /\ lastError' = IF error # <<>> THEN error ELSE lastError
    /\ lastSyncAt' = IF newState \in {"completed", "error"} THEN <<now>> ELSE lastSyncAt
    /\ inbox' = NotifyListeners(listeners, inbox,
                    GetSyncStatus(syncState', lastSyncAt', lastError', isAutoSyncEnabled))

UpdateState(newState, error) ==
    /\ syncState' = newState
    /\ lastError' = IF error # <<>> THEN error ELSE lastError
    /\ lastSyncAt' = IF newState \in {"completed", "error"} THEN <<now>> ELSE lastSyncAt
    /\ inbox' = NotifyListeners(listeners, inbox,
                    GetSyncStatus(syncState', lastSyncAt', lastError', isAutoSyncEnabled))

\* syncNow(), lines 190-204: the code before the first await
SyncNowGateNoBusy(st, last, t) ==
    IF TruthyNum(last) /\ t - last[1] < MIN_SYNC_INTERVAL_MS THEN "skip" ELSE "probe"

SyncNowGate(st, last, t) ==
    IF st = "syncing" THEN "busy"
    ELSE IF TruthyNum(last) /\ t - last[1] < MIN_SYNC_INTERVAL_MS THEN "skip"
    ELSE "probe"

SyncNowEntry(origin) ==
    LET gate == SyncNowGate(syncState, lastSyncAt, now)
        base == [IdleTask EXCEPT !.op = "syncNow", !.origin = origin]
    IN  CASE gate = "busy" ->
               [base EXCEPT !.pc = "done",
                            !.ret = Resolved(SyncResult(FALSE, <<>>, <<"Sync already in progress">>))]
          [] gate = "skip" ->
               [base EXCEPT !.pc = "done",
                            !.ret = Resolved(SyncResult(TRUE, <<>>, <<>>))]
          [] OTHER -> [base EXCEPT !.pc = "probe"]

SyncNow(t) ==
    /\ Free(t)
    /\ task' = [task EXCEPT ![t] = SyncNowEntry("user")]
    /\ UNCHANGED <<syncVars, autoVars, listeners, inbox, now, net, dbVars, faults>>

SyncNowProbeThrows(t) ==
    /\ task[t].op = "syncNow" /\ task[t].pc = "probe"
    /\ faults > 0
    /\ faults' = faults - 1
    /\ task' = [task EXCEPT ![t] = Done(t, Rejected("Network state unavailable"))]
    /\ UNCHANGED <<syncVars, autoVars, listeners, inbox, now, net, dbVars>>

\* syncNow(), line 205
OfflineConnectedOnly(networkState) == ~networkState.isConnected

Offline(networkState) ==
    ~networkState.isConnected \/ networkState.isInternetReachable = "false"

SyncNowOffline(t) ==
    /\ task[t].op = "syncNow" /\ task[t].pc = "probe"
    /\ Offline(net)
    /\ task' = [task EXCEPT ![t] =
                   Done(t, Resolved(SyncResult(FALSE, <<>>, <<"Device is offline">>)))]
    /\ UNCHANGED <<syncVars, autoVars, listeners, inbox, now, net, dbVars, faults>>

SyncNowBegin(t) ==
    /\ task[t].op = "syncNow" /\ task[t].pc = "probe"
    /\ ~Offline(net)
    /\ UpdateState("syncing", <<>>)
    /\ task' = [task EXCEPT ![t].pc = "read", ![t].result = EmptyResult]
    /\ UNCHANGED <<autoVars, listeners, now, net, dbVars, faults>>

FailedMessage(n) == ToString(n) \o " items failed to sync"

\* processQueue() has returned `result` to its caller
ReturnedIgnoringFailures(t, result) ==
    IF task[t].op = "syncNow"
    THEN /\ UpdateState("completed", <<>>)
         /\ task' = [task EXCEPT ![t] =
                Done(t, Resolved(SyncResult(TRUE, <<result>>, <<>>)))]
    ELSE /\ task' = [task EXCEPT ![t] = Done(t, Resolved(result))]
         /\ UNCHANGED <<syncVars, inbox>>

Returned(t, result) ==
    IF task[t].op = "syncNow"
    THEN /\ IF result.failed > 0
            THEN UpdateState("error", <<FailedMessage(result.failed)>>)
            ELSE UpdateState("completed", <<>>)
         /\ task' = [task EXCEPT ![t] =
                Done(t, Resolved(SyncResult(result.failed = 0, <<result>>, <<>>)))]
    ELSE /\ task' = [task EXCEPT ![t] = Done(t, Resolved(result))]
         /\ UNCHANGED <<syncVars, inbox>>

\* processQueue() has thrown `message` to its caller
ThrownUncaught(t, message) ==
    /\ task' = [task EXCEPT ![t] = Done(t, Rejected(message))]
    /\ UNCHANGED <<syncVars, inbox>>

Thrown(t, message) ==
    IF task[t].op = "syncNow"
    THEN /\ UpdateState("error", <<message>>)
         /\ task' = [task EXCEPT ![t] =
                Done(t, Resolved(SyncResult(FALSE, <<>>, <<message>>)))]
    ELSE /\ task' = [task EXCEPT ![t] = Done(t, Rejected(message))]
         /\ UNCHANGED <<syncVars, inbox>>

\* ----------------------------------------------------------- database rows
DbError == "database error"

StorageOk(ok) ==
    /\ ok \/ faults > 0
    /\ faults' = IF ok THEN faults ELSE faults - 1

QueueRow(id, draftId, type, createdAt) ==
    [id |-> id, draftId |-> draftId, type |-> type, retryCount |-> 0,
     lastError |-> <<>>, createdAt |-> createdAt, status |-> "pending"]

DraftRow(audioPath) ==
    [audioPath |-> audioPath, transcript |-> <<>>, invoiceData |-> <<>>,
     syncStatus |-> "local"]

UpdateQueueItemStatusKeepCount(q, id, status, error, retryCount) ==
    IF id \in DOMAIN q
    THEN [q EXCEPT ![id] = [@ EXCEPT !.status = status, !.lastError = error]]
    ELSE q

UpdateQueueItemStatus(q, id, status, error, retryCount) ==
    IF id \in DOMAIN q
    THEN [q EXCEPT ![id] = [@ EXCEPT !.status = status, !.lastError = error,
                                     !.retryCount = retryCount]]
    ELSE q

\* QUEUE_QUERIES.GET_PENDING: WHERE status = 'pending' ORDER BY created_at ASC
PendingIdsNotCompleted(q) == {id \in DOMAIN q : q[id].status # "completed"}

PendingIds(q) == {id \in DOMAIN q : q[id].status = "pending"}

PendingOrdersUnsorted(q) ==
    LET ids == PendingIds(q)
        n == Cardinality(ids)
    IN  {s \in [1..n -> ids] : \A a, b \in 1..n : a # b => s[a] # s[b]}

PendingOrders(q) ==
    LET ids == PendingIds(q)
        n == Cardinality(ids)
    IN  {s \in [1..n -> ids] :
            /\ \A a, b \in 1..n : a # b => s[a] # s[b]
            /\ \A a, b \in 1..n : a < b => q[s[a]].createdAt <= q[s[b]].createdAt}

GetPendingQueueItems(q) ==
    {[k \in 1..Len(s) |-> q[s[k]]] : s \in PendingOrders(q)}

KeepCompletedQueueItems(q) == q

DeleteCompletedQueueItems(q) ==
    [id \in {x \in DOMAIN q : q[x].status # "completed"} |-> q[id]]

GetDraftById(d, id) == IF id \in DOMAIN d THEN <<d[id]>> ELSE <<>>

UpdateDraftTranscript(d, id, transcript) ==
    IF id \in DOMAIN d THEN [d EXCEPT ![id] = [@ EXCEPT !.transcript = <<transcript>>]] ELSE d

UpdateDraftInvoice(d, id, invoiceData) ==
    IF id \in DOMAIN d
    THEN [d EXCEPT ![id] = [@ EXCEPT !.invoiceData = <<invoiceData>>, !.syncStatus = "synced"]]
    ELSE d

\* ------------------------------------------------------------------ clients
\* what transcribe() gives back: a result, or the error it throws once its
\* own retries are used up (retryable) or at once (not retryable)
SttOutcomes ==
    { [ok |-> TRUE,  transcript |-> "2 hours at 500", error |-> "", retryable |-> FALSE],
      [ok |-> TRUE,  transcript |-> "", error |-> "", retryable |-> FALSE],
      [ok |-> FALSE, transcript |-> "", error |-> "Network request failed", retryable |-> TRUE],
      [ok |-> FALSE, transcript |-> "", error |-> "Invalid API key", retryable |-> FALSE] }

ParseOutcomes ==
    { [ok |-> TRUE,  total |-> 1000, error |-> "", retryable |-> FALSE],
      [ok |-> FALSE, total |-> 0, error |-> "Rate limit exceeded", retryable |-> TRUE] }

JsonStringify(parsedInvoice) == "{total:" \o ToString(parsedInvoice.total) \o "}"

\* ------------------------------------------------------------ queue service
IsPass(t) == task[t].op \in {"syncNow", "processQueue"}

Item(t) == task[t].pendingItems[task[t].i]

\* processQueue(), lines 386-396: one turn of the loop has ended
NextItemSkipLast(tk, ok, message) ==
    LET r == IF ok
             THEN [tk.result EXCEPT !.processed = @ + 1]
             ELSE [tk.result EXCEPT !.failed = @ + 1,
                      !.errors = Append(@, [id |-> tk.pendingItems[tk.i].id, error |-> message])]
        more == tk.i + 1 < Len(tk.pendingItems)
    IN  [tk EXCEPT !.result = r, !.value = <<>>, !.error = <<>>, !.draft = <<>>,
                   !.calls = NoCalls,
                   !.pc = IF more THEN "mark" ELSE "purge",
                   !.i = IF more THEN @ + 1 ELSE @]

NextItem(tk, ok, message) ==
    LET r == IF ok
             THEN [tk.result EXCEPT !.processed = @ + 1]
             ELSE [tk.result EXCEPT !.failed = @ + 1,
                      !.errors = Append(@, [id |-> tk.pendingItems[tk.i].id, error |-> message])]
        more == tk.i < Len(tk.pendingItems)
    IN  [tk EXCEPT !.result = r, !.value = <<>>, !.error = <<>>, !.draft = <<>>,
                   !.calls = NoCalls,
                   !.pc = IF more THEN "mark" ELSE "purge",
                   !.i = IF more THEN @ + 1 ELSE @]

ToCatch(tk, message) == [tk EXCEPT !.pc = "catch", !.error = <<message>>, !.value = <<>>]

AfterStt(item) ==
    IF item.type \in {"parse", "both"} THEN "getDraft2" ELSE "markCompleted"

AfterDraftNoCheckpoint(item, draft) ==
    IF item.type \in {"stt", "both"} /\ TruthyStr(draft.audioPath)
    THEN "stt"
    ELSE AfterStt(item)

AfterDraft(item, draft) ==
    IF /\ item.type \in {"stt", "both"}
       /\ TruthyStr(draft.audioPath)
       /\ ~TruthyStr(draft.transcript)
    THEN "stt"
    ELSE AfterStt(item)

NeedsParse(updatedDraft) ==
    /\ updatedDraft # <<>>
    /\ TruthyStr(updatedDraft[1].transcript)
    /\ ~TruthyStr(updatedDraft[1].invoiceData)

ProcessQueue(t) ==
    /\ Free(t)
    /\ task[t].passes < MaxPasses
    /\ task' = [task EXCEPT ![t] = [IdleTask EXCEPT !.op = "processQueue", !.pc = "read",
                                                    !.origin = "user",
                                                    !.passes = task[t].passes + 1]]
    /\ UNCHANGED <<syncVars, autoVars, listeners, inbox, now, net, dbVars, faults>>

ReadPending(t) ==
    /\ IsPass(t) /\ task[t].pc = "read"
    /\ \E ok \in BOOLEAN :
        /\ StorageOk(ok)
        /\ IF ~ok
           THEN Thrown(t, DbError)
           ELSE \E items \in GetPendingQueueItems(queue) :
                  IF Len(items) = 0
                  THEN Returned(t, EmptyResult)
                  ELSE /\ task' = [task EXCEPT ![t].pendingItems = items, ![t].i = 1,
                                       ![t].pc = "mark",
                                       ![t].result = [EmptyResult EXCEPT !.total = Len(items)]]
                       /\ UNCHANGED <<syncVars, inbox>>
    /\ UNCHANGED <<autoVars, listeners, now, net, dbVars>>

MarkProcessing(t) ==
    /\ IsPass(t) /\ task[t].pc = "mark"
    /\ \E ok \in BOOLEAN :
        /\ StorageOk(ok)
        /\ IF ok
           THEN /\ queue' = UpdateQueueItemStatus(queue, Item(t).id, "processing", <<>>,
                                                  Item(t).retryCount)
                /\ task' = [task EXCEPT ![t].pc = "getDraft"]
           ELSE /\ task' = [task EXCEPT ![t] = NextItem(task[t], FALSE, DbError)]
                /\ UNCHANGED queue
    /\ UNCHANGED <<syncVars, autoVars, listeners, inbox, now, net, drafts, nextId>>

GetDraft(t) ==
    /\ IsPass(t) /\ task[t].pc = "getDraft"
    /\ \E ok \in BOOLEAN :
        /\ StorageOk(ok)
        /\ LET draft == GetDraftById(drafts, Item(t).draftId)
           IN  task' = [task EXCEPT ![t] =
                   IF ~ok THEN ToCatch(@, DbError)
                   ELSE IF draft = <<>>
                        THEN ToCatch(@, "Draft " \o Item(t).draftId \o " not found")
                        ELSE [@ EXCEPT !.pc = AfterDraft(Item(t), draft[1]),
                                       !.draft = draft]]
    /\ UNCHANGED <<syncVars, autoVars, listeners, inbox, now, net, dbVars>>

Transcribe(t) ==
    /\ IsPass(t) /\ task[t].pc = "stt"
    /\ \E sttResult \in SttOutcomes :
        task' = [task EXCEPT ![t] =
            IF sttResult.ok
            THEN [@ EXCEPT !.pc = "saveTranscript", !.value = <<sttResult.transcript>>,
                           !.calls.stt = @ + 1]
            ELSE ToCatch([@ EXCEPT !.calls.stt = @ + 1], sttResult.error)]
    /\ UNCHANGED <<syncVars, autoVars, listeners, inbox, now, net, dbVars, faults>>

SaveTranscript(t) ==
    /\ IsPass(t) /\ task[t].pc = "saveTranscript"
    /\ \E ok \in BOOLEAN :
        /\ StorageOk(ok)
        /\ IF ok
           THEN /\ drafts' = UpdateDraftTranscript(drafts, Item(t).draftId, task[t].value[1])
                /\ task' = [task EXCEPT ![t].pc = AfterStt(Item(t)), ![t].value = <<>>]
           ELSE /\ task' = [task EXCEPT ![t] = ToCatch(@, DbError)]
                /\ UNCHANGED drafts
    /\ UNCHANGED <<syncVars, autoVars, listeners, inbox, now, net, queue, nextId>>

GetDraft2(t) ==
    /\ IsPass(t) /\ task[t].pc = "getDraft2"
    /\ \E ok \in BOOLEAN :
        /\ StorageOk(ok)
        /\ LET updatedDraft == GetDraftById(drafts, Item(t).draftId)
           IN  task' = [task EXCEPT ![t] =
                   IF ~ok THEN ToCatch(@, DbError)
                   ELSE IF NeedsParse(updatedDraft)
                        THEN [@ EXCEPT !.pc = "parse", !.value = updatedDraft[1].transcript]
                        ELSE [@ EXCEPT !.pc = "markCompleted"]]
    /\ UNCHANGED <<syncVars, autoVars, listeners, inbox, now, net, dbVars>>

ParseTranscript(t) ==
    /\ IsPass(t) /\ task[t].pc = "parse"
    /\ \E parsedInvoice \in ParseOutcomes :
        task' = [task EXCEPT ![t] =
            IF parsedInvoice.ok
            THEN [@ EXCEPT !.pc = "saveInvoice", !.value = <<JsonStringify(parsedInvoice)>>,
                           !.calls.parse = @ + 1]
            ELSE ToCatch([@ EXCEPT !.calls.parse = @ + 1], parsedInvoice.error)]
    /\ UNCHANGED <<syncVars, autoVars, listeners, inbox, now, net, dbVars, faults>>

SaveInvoice(t) ==
    /\ IsPass(t) /\ task[t].pc = "saveInvoice"
    /\ \E ok \in BOOLEAN :
        /\ StorageOk(ok)
        /\ IF ok
           THEN /\ drafts' = UpdateDraftInvoice(drafts, Item(t).draftId, task[t].value[1])
                /\ task' = [task EXCEPT ![t].pc = "markCompleted", ![t].value = <<>>]
           ELSE /\ task' = [task EXCEPT ![t] = ToCatch(@, DbError)]
                /\ UNCHANGED drafts
    /\ UNCHANGED <<syncVars, autoVars, listeners, inbox, now, net, queue, nextId>>

MarkCompleted(t) ==
    /\ IsPass(t) /\ task[t].pc = "markCompleted"
    /\ \E ok \in BOOLEAN :
        /\ StorageOk(ok)
        /\ IF ok
           THEN /\ queue' = UpdateQueueItemStatus(queue, Item(t).id, "completed", <<>>,
                                                  Item(t).retryCount)
                /\ task' = [task EXCEPT ![t] = NextItem(@, TRUE, "")]
           ELSE /\ task' = [task EXCEPT ![t] = ToCatch(@, DbError)]
                /\ UNCHANGED queue
    /\ UNCHANGED <<syncVars, autoVars, listeners, inbox, now, net, drafts, nextId>>

\* processItem(), lines 455-470
FailureStatusOneMore(newRetryCount) ==
    IF newRetryCount > MAX_RETRIES THEN "failed" ELSE "pending"

FailureStatus(newRetryCount) ==
    IF newRetryCount >= MAX_RETRIES THEN "failed" ELSE "pending"

CatchItem(t) ==
    /\ IsPass(t) /\ task[t].pc = "catch"
    /\ \E ok \in BOOLEAN :
        /\ StorageOk(ok)
        /\ LET newRetryCount == Item(t).retryCount + 1
           IN  IF ok
               THEN /\ queue' = UpdateQueueItemStatus(queue, Item(t).id,
                                    FailureStatus(newRetryCount), task[t].error, newRetryCount)
                    /\ task' = [task EXCEPT ![t] = NextItem(@, FALSE, task[t].error[1])]
               ELSE /\ task' = [task EXCEPT ![t] = NextItem(@, FALSE, DbError)]
                    /\ UNCHANGED queue
    /\ UNCHANGED <<syncVars, autoVars, listeners, inbox, now, net, drafts, nextId>>

Purge(t) ==
    /\ IsPass(t) /\ task[t].pc = "purge"
    /\ \E ok \in BOOLEAN :
        /\ StorageOk(ok)
        /\ IF ok
           THEN /\ queue' = DeleteCompletedQueueItems(queue)
                /\ Returned(t, task[t].result)
           ELSE /\ Thrown(t, DbError)
                /\ UNCHANGED queue
    /\ UNCHANGED <<autoVars, listeners, now, net, drafts, nextId>>


AddToQueue(draftId, type) ==
    /\ nextId <= MaxItems
    /\ queue' = [id \in DOMAIN queue \cup {nextId} |->
                    IF id = nextId THEN QueueRow(nextId, draftId, type, now) ELSE queue[id]]
    /\ nextId' = nextId + 1
    /\ UNCHANGED <<syncVars, autoVars, listeners, inbox, now, net, drafts, faults, task>>

CreateDraft(id, audioPath) ==
    /\ id \notin DOMAIN drafts
    /\ drafts' = [d \in DOMAIN drafts \cup {id} |->
                    IF d = id THEN DraftRow(audioPath) ELSE drafts[d]]
    /\ UNCHANGED <<syncVars, autoVars, listeners, inbox, now, net, queue, nextId, faults, task>>

DeleteDraft(id) ==
    /\ id \in DOMAIN drafts
    /\ drafts' = [d \in DOMAIN drafts \ {id} |-> drafts[d]]
    /\ UNCHANGED <<syncVars, autoVars, listeners, inbox, now, net, queue, nextId, faults, task>>

\* retryFailedItems(), lines 476-493
RetryFilter(items) ==
    SelectSeq(items, LAMBDA item :
        \/ item.status = "failed"
        \/ (TruthyStr(item.lastError) /\ item.retryCount < MAX_RETRIES))

RetryFailedItems(t) ==
    /\ Free(t)
    /\ task' = [task EXCEPT ![t] = [IdleTask EXCEPT !.op = "retryFailedItems",
                                                    !.pc = "retryRead", !.origin = "user",
                                                    !.passes = task[t].passes]]
    /\ UNCHANGED <<syncVars, autoVars, listeners, inbox, now, net, dbVars, faults>>

RetryRead(t) ==
    /\ task[t].op = "retryFailedItems" /\ task[t].pc = "retryRead"
    /\ \E ok \in BOOLEAN :
        /\ StorageOk(ok)
        /\ IF ~ok
           THEN task' = [task EXCEPT ![t] = Done(t, Rejected(DbError))]
           ELSE \E items \in GetPendingQueueItems(queue) :
                  LET failedItems == RetryFilter(items)
                  IN  task' = [task EXCEPT ![t] =
                          IF Len(failedItems) = 0
                          THEN Done(t, Resolved("void"))
                          ELSE [@ EXCEPT !.pendingItems = failedItems, !.i = 1,
                                         !.pc = "retryUpdate"]]
    /\ UNCHANGED <<syncVars, autoVars, listeners, inbox, now, net, dbVars>>

RetryUpdate(t) ==
    /\ task[t].op = "retryFailedItems" /\ task[t].pc = "retryUpdate"
    /\ \E ok \in BOOLEAN :
        /\ StorageOk(ok)
        /\ IF ok
           THEN /\ queue' = UpdateQueueItemStatus(queue, Item(t).id, "pending", <<>>,
                                                  Item(t).retryCount)
                /\ task' = [task EXCEPT ![t] =
                       IF task[t].i < Len(task[t].pendingItems)
                       THEN [@ EXCEPT !.i = @ + 1]
                       ELSE Done(t, Resolved("void"))]
           ELSE /\ task' = [task EXCEPT ![t] = Done(t, Rejected(DbError))]
                /\ UNCHANGED queue
    /\ UNCHANGED <<syncVars, autoVars, listeners, inbox, now, net, drafts, nextId>>

\* getQueueStatus(), lines 498-512
CountStatus(items, status) ==
    Cardinality({k \in 1..Len(items) : items[k].status = status})

QueueStatus(items) ==
    [pending |-> CountStatus(items, "pending"),
     processing |-> CountStatus(items, "processing"),
     failed |-> CountStatus(items, "failed"),
     total |-> Len(items)]

GetQueueStatus(t) ==
    /\ Free(t)
    /\ \E ok \in BOOLEAN :
        /\ StorageOk(ok)
        /\ \E items \in GetPendingQueueItems(queue) :
             task' = [task EXCEPT ![t] =
                [IdleTask EXCEPT !.op = "getQueueStatus", !.origin = "user", !.pc = "done",
                    !.passes = task[t].passes,
                    !.ret = IF ok THEN Resolved(QueueStatus(items))
                            ELSE Resolved(QueueStatus(<<>>))]]
    /\ UNCHANGED <<syncVars, autoVars, listeners, inbox, now, net, dbVars>>

\* clearAllItems(), lines 530-539
ClearAllItems(t) ==
    /\ Free(t)
    /\ \E ok \in BOOLEAN :
        /\ StorageOk(ok)
        /\ queue' = IF ok THEN [id \in {} |-> 0] ELSE queue
        /\ task' = [task EXCEPT ![t] =
                [IdleTask EXCEPT !.op = "clearAllItems", !.origin = "user", !.pc = "done",
                    !.passes = task[t].passes,
                    !.ret = IF ok THEN Resolved("void") ELSE Rejected(DbError)]]
    /\ UNCHANGED <<syncVars, autoVars, listeners, inbox, now, net, drafts, nextId>>

\* clearCompletedItems(), lines 517-525
ClearCompletedItems(t) ==
    /\ Free(t)
    /\ \E ok \in BOOLEAN :
        /\ StorageOk(ok)
        /\ queue' = IF ok THEN DeleteCompletedQueueItems(queue) ELSE queue
        /\ task' = [task EXCEPT ![t] =
                [IdleTask EXCEPT !.op = "clearCompletedItems", !.origin = "user",
                    !.pc = "done", !.passes = task[t].passes,
                    !.ret = IF ok THEN Resolved("void") ELSE Rejected(DbError)]]
    /\ UNCHANGED <<syncVars, autoVars, listeners, inbox, now, net, drafts, nextId>>

\* ------------------------------------------------- sync service: auto-sync
AddListener(l) ==
    /\ listeners' = IF \E k \in 1..Len(listeners) : listeners[k] = l
                    THEN listeners ELSE Append(listeners, l)
    /\ listeners' # listeners
    /\ UNCHANGED <<syncVars, autoVars, inbox, now, net, dbVars, faults, task>>

Unsubscribe(l) ==
    /\ listeners' = SelectSeq(listeners, LAMBDA x : x # l)
    /\ listeners' # listeners
    /\ UNCHANGED <<syncVars, autoVars, inbox, now, net, dbVars, faults, task>>

StartAutoSync ==
    /\ IF isAutoSyncEnabled
       THEN UNCHANGED <<isAutoSyncEnabled, networkSubscription, subscriptions, inbox>>
       ELSE /\ isAutoSyncEnabled' = TRUE
            /\ networkSubscription' = <<"sub">>
            /\ subscriptions' = subscriptions + 1
            /\ inbox' = NotifyListeners(listeners, inbox,
                            GetSyncStatus(syncState, lastSyncAt, lastError, TRUE))
    /\ UNCHANGED <<syncVars, syncDebounceTimeout, timers, burst, listeners, now, net,
                   dbVars, faults, task>>

\* stopAutoSync(), lines 140-161, as a function of the state it touches
StopEffectKeepTimer(enabled, sub, subs, handle, tm, inb) ==
    IF ~enabled
    THEN [enabled |-> enabled, sub |-> sub, subs |-> subs, handle |-> handle,
          tm |-> tm, inb |-> inb]
    ELSE [enabled |-> FALSE, sub |-> <<>>,
          subs |-> IF sub # <<>> THEN subs - 1 ELSE subs,
          handle |-> <<>>,
          tm |-> tm,
          inb |-> NotifyListeners(listeners, inb,
                      GetSyncStatus(syncState, lastSyncAt, lastError, FALSE))]

StopEffect(enabled, sub, subs, handle, tm, inb) ==
    IF ~enabled
    THEN [enabled |-> enabled, sub |-> sub, subs |-> subs, handle |-> handle,
          tm |-> tm, inb |-> inb]
    ELSE [enabled |-> FALSE, sub |-> <<>>,
          subs |-> IF sub # <<>> THEN subs - 1 ELSE subs,
          handle |-> <<>>,
          tm |-> IF handle # <<>> THEN tm \ {handle[1]} ELSE tm,
          inb |-> NotifyListeners(listeners, inb,
                      GetSyncStatus(syncState, lastSyncAt, lastError, FALSE))]

Stopped ==
    StopEffect(isAutoSyncEnabled, networkSubscription, subscriptions,
               syncDebounceTimeout, timers, inbox)

StopAutoSync ==
    /\ isAutoSyncEnabled' = Stopped.enabled
    /\ networkSubscription' = Stopped.sub
    /\ subscriptions' = Stopped.subs
    /\ syncDebounceTimeout' = Stopped.handle
    /\ timers' = Stopped.tm
    /\ inbox' = Stopped.inb
    /\ burst' = IF timers' # timers THEN 0 ELSE burst
    /\ UNCHANGED <<syncVars, listeners, now, net, dbVars, faults, task>>

Reset ==
    /\ isAutoSyncEnabled' = Stopped.enabled
    /\ networkSubscription' = Stopped.sub
    /\ subscriptions' = Stopped.subs
    /\ syncDebounceTimeout' = Stopped.handle
    /\ timers' = Stopped.tm
    /\ inbox' = Stopped.inb
    /\ burst' = IF timers' # timers THEN 0 ELSE burst
    /\ syncState' = "idle"
    /\ lastSyncAt' = <<>>
    /\ lastError' = <<>>
    /\ listeners' = <<>>
    /\ UNCHANGED <<now, net, dbVars, faults, task>>

\* onNetworkChange(), lines 166-184: which timeouts are scheduled afterwards
DebounceNoClear(tm, handle, t) ==
    [tm |-> tm \cup {t + SYNC_DEBOUNCE_MS}, handle |-> <<t + SYNC_DEBOUNCE_MS>>]

Debounce(tm, handle, t) ==
    [tm |-> (IF handle # <<>> THEN tm \ {handle[1]} ELSE tm) \cup {t + SYNC_DEBOUNCE_MS},
     handle |-> <<t + SYNC_DEBOUNCE_MS>>]

OnNetworkChange(isConnected, isInternetReachable) ==
    IF IsOnline(isConnected, isInternetReachable) /\ isAutoSyncEnabled
    THEN /\ timers' = Debounce(timers, syncDebounceTimeout, now).tm
         /\ syncDebounceTimeout' = Debounce(timers, syncDebounceTimeout, now).handle
         /\ burst' = IF timers = {} THEN 1 ELSE IF burst < MaxBurst THEN burst + 1 ELSE burst
    ELSE UNCHANGED <<timers, syncDebounceTimeout, burst>>

NetworkChange(state) ==
    /\ state # net
    /\ net' = state
    /\ IF subscriptions > 0
       THEN OnNetworkChange(state.isConnected, state.isInternetReachable)
       ELSE UNCHANGED <<timers, syncDebounceTimeout, burst>>
    /\ UNCHANGED <<syncVars, isAutoSyncEnabled, networkSubscription, subscriptions,
                   listeners, inbox, now, dbVars, faults, task>>

\* the timeout callback of lines 177-182
DebounceFire(t) ==
    /\ Free(t)
    /\ \E deadline \in timers :
        /\ deadline <= now
        /\ timers' = timers \ {deadline}
    /\ syncDebounceTimeout' = <<>>
    /\ task' = [task EXCEPT ![t] = SyncNowEntry("debounce")]
    /\ UNCHANGED <<burst, syncVars, isAutoSyncEnabled, networkSubscription, subscriptions,
                   listeners, inbox, now, net, dbVars, faults>>

\* initialize(), lines 97-112
Initialize(t) ==
    /\ Free(t)
    /\ task' = [task EXCEPT ![t] = [IdleTask EXCEPT !.op = "initialize", !.pc = "probe",
                                                    !.origin = "user"]]
    /\ UNCHANGED <<syncVars, autoVars, listeners, inbox, now, net, dbVars, faults>>

InitializeProbed(t) ==
    /\ task[t].op = "initialize" /\ task[t].pc = "probe"
    /\ \E ok \in BOOLEAN :
        /\ StorageOk(ok)
        /\ IF ~ok
           THEN /\ task' = [task EXCEPT ![t] = Done(t, Rejected("Network state unavailable"))]
                /\ UNCHANGED inbox
           ELSE /\ IF IsOnline(net.isConnected, net.isInternetReachable)
                   THEN \E u \in Tasks \ {t} :
                           /\ Free(u)
                           /\ task' = [task EXCEPT ![t] = Done(t, Resolved("void")),
                                                   ![u] = SyncNowEntry("initialize")]
                   ELSE task' = [task EXCEPT ![t] = Done(t, Resolved("void"))]
                /\ inbox' = NotifyListeners(listeners, inbox,
                                GetSyncStatus(syncState, lastSyncAt, lastError, isAutoSyncEnabled))
    /\ UNCHANGED <<syncVars, autoVars, listeners, now, net, dbVars>>

\* the app process is killed and started again: the module state of lines
\* 53-59 and every call in flight are gone, the database is kept
Crash ==
    /\ \E t \in Tasks : ~Free(t)
    /\ task' = [t \in Tasks |-> [IdleTask EXCEPT !.passes = task[t].passes]]
    /\ syncState' = "idle"
    /\ lastSyncAt' = <<>>
    /\ lastError' = <<>>
    /\ isAutoSyncEnabled' = FALSE
    /\ networkSubscription' = <<>>
    /\ syncDebounceTimeout' = <<>>
    /\ listeners' = <<>>
    /\ inbox' = [l \in Listeners |-> [status |-> <<>>, seq |-> 0]]
    /\ subscriptions' = 0
    /\ timers' = {}
    /\ burst' = 0
    /\ UNCHANGED <<now, net, dbVars, faults>>

Tick(d, limit) ==
    /\ now + d <= limit
    /\ \A deadline \in timers : now + d <= deadline
    /\ now' = now + d
    /\ UNCHANGED <<syncVars, autoVars, listeners, inbox, net, dbVars, faults, task>>

\* ------------------------------------------------------------ specification
Init ==
    /\ syncState = "idle"
    /\ lastSyncAt = <<>>
    /\ lastError = <<>>
    /\ isAutoSyncEnabled = FALSE
    /\ networkSubscription = <<>>
    /\ syncDebounceTimeout = <<>>
    /\ listeners = <<>>
    /\ inbox = [l \in Listeners |-> [status |-> <<>>, seq |-> 0]]
    /\ now \in StartTime
    /\ subscriptions = 0
    /\ timers = {}
    /\ burst = 0
    /\ task = [t \in Tasks |-> IdleTask]

\* one recording was saved and queued while the app was offline
Queued ==
    /\ drafts = [d \in {"d1"} |-> DraftRow(<<"a.m4a">>)]
    /\ queue = [id \in {1} |-> QueueRow(1, "d1", "both", 1000)]
    /\ nextId = 2

\* the same recording was queued twice
QueuedTwice ==
    /\ drafts = [d \in {"d1"} |-> DraftRow(<<"a.m4a">>)]
    /\ queue = [id \in {1, 2} |-> QueueRow(id, "d1", "both", 1000)]
    /\ nextId = 3

Fresh ==
    /\ queue = [id \in {} |-> 0]
    /\ drafts = [id \in {} |-> 0]
    /\ nextId = 1

Faulty == faults = MaxFaults

Reliable == faults = 0

Connected == net = [isConnected |-> TRUE, isInternetReachable |-> "true"]

PassStep(t) ==
    \/ ReadPending(t) \/ MarkProcessing(t) \/ GetDraft(t) \/ Transcribe(t)
    \/ SaveTranscript(t) \/ GetDraft2(t) \/ ParseTranscript(t) \/ SaveInvoice(t)
    \/ MarkCompleted(t) \/ CatchItem(t) \/ Purge(t)

SyncCall(t) ==
    \/ SyncNow(t) \/ SyncNowProbeThrows(t) \/ SyncNowOffline(t) \/ SyncNowBegin(t)
    \/ PassStep(t)

\* the sync service driven by explicit syncNow() calls
Next ==
    \/ \E t \in Tasks : SyncCall(t)
    \/ \E state \in NetStates : NetworkChange(state)
    \/ \E d \in CoarseSteps : Tick(d, MaxTime)

InitSync == Init /\ Queued /\ Faulty /\ net \in NetStates

Spec == InitSync /\ [][Next]_vars

\* ... one syncNow() call at a time, with reset() between and during passes
NextReset ==
    \/ \E t \in {"t1"} : SyncCall(t)
    \/ \E state \in NetStates : NetworkChange(state)
    \/ \E d \in CoarseSteps : Tick(d, MaxTime)
    \/ Reset

InitReset == Init /\ Queued /\ Faulty /\ Connected

SpecReset == InitReset /\ [][NextReset]_vars

\* ... with status listeners and the auto-sync switch, online, the queue empty
NextNotify ==
    \/ \E t \in Tasks : SyncNow(t) \/ SyncNowProbeThrows(t) \/ SyncNowBegin(t)
                        \/ ReadPending(t)
    \/ \E l \in Listeners : AddListener(l) \/ Unsubscribe(l)
    \/ StartAutoSync \/ StopAutoSync
    \/ Reset

InitNotify == Init /\ Fresh /\ Faulty /\ Connected

SpecNotify == InitNotify /\ [][NextNotify]_vars

\* auto-sync: connectivity changes, the debounce timeout and the sync it
\* starts, the queue empty
NextDebounce ==
    \/ StartAutoSync \/ StopAutoSync
    \/ \E state \in NetStates : NetworkChange(state)
    \/ \E d \in FineSteps : Tick(d, MaxBurstTime)
    \/ \E t \in Tasks : DebounceFire(t) \/ SyncNowProbeThrows(t) \/ SyncNowOffline(t)
                        \/ SyncNowBegin(t) \/ ReadPending(t)

InitDebounce == Init /\ Fresh /\ Faulty /\ net \in NetStates

SpecDebounce == InitDebounce /\ [][NextDebounce]_vars

\* the public entry points under storage and probe failures, online
NextEntry ==
    \/ \E t \in Tasks :
        \/ SyncNow(t) \/ SyncNowProbeThrows(t) \/ SyncNowBegin(t) \/ PassStep(t)
        \/ Initialize(t) \/ InitializeProbed(t)
        \/ GetQueueStatus(t)
        \/ RetryFailedItems(t) \/ RetryRead(t) \/ RetryUpdate(t)
        \/ ClearAllItems(t)

InitEntry == Init /\ Queued /\ Faulty /\ Connected

SpecEntry == InitEntry /\ [][NextEntry]_vars

\* the queue service called directly
NextQueue ==
    \/ \E t \in {"t1"} : ProcessQueue(t) \/ PassStep(t)
    \/ \E id \in DraftIds, audioPath \in {<<>>, <<"a.m4a">>} : CreateDraft(id, audioPath)
    \/ \E id \in DraftIds : DeleteDraft(id)
    \/ \E id \in DraftIds, type \in {"stt", "parse", "both"} : AddToQueue(id, type)

InitQueue == Init /\ Fresh /\ Reliable /\ Connected

SpecQueue == InitQueue /\ [][NextQueue]_vars

\* one queued recording, processed pass after pass, with manual retries
NextPass ==
    \E t \in {"t1"} :
        \/ ProcessQueue(t) \/ PassStep(t)
        \/ RetryFailedItems(t) \/ RetryRead(t) \/ RetryUpdate(t)

InitPass == Init /\ Queued /\ Reliable /\ Connected

SpecPass == InitPass /\ [][NextPass]_vars

\* ... under storage failures, with the status and clean-up calls of the UI
NextFaulty ==
    \E t \in {"t1"} :
        \/ ProcessQueue(t) \/ PassStep(t)
        \/ GetQueueStatus(t)
        \/ ClearCompletedItems(t)

InitFaulty == Init /\ Queued /\ Faulty /\ Connected

SpecFaulty == InitFaulty /\ [][NextFaulty]_vars

\* ... with the app killed in the middle of a pass
NextCrash ==
    \/ \E t \in {"t1"} : ProcessQueue(t) \/ PassStep(t)
    \/ Crash

InitCrash == Init /\ Queued /\ Reliable /\ Connected

SpecCrash == InitCrash /\ [][NextCrash]_vars

\* the orchestrator left to itself: auto-sync, its timeout and the passes it
\* starts always get to run, time passes; connectivity changes and explicit
\* syncNow() calls may or may not happen
Orchestrator ==
    \/ \E t \in {"t1"} : DebounceFire(t) \/ SyncNowOffline(t) \/ SyncNowBegin(t) \/ PassStep(t)
    \/ \E d \in FineSteps \cup CoarseSteps : Tick(d, MaxTime)

NextLive ==
    \/ Orchestrator
    \/ \E t \in {"t1"} : SyncNow(t)
    \/ StartAutoSync
    \/ \E state \in NetStates : NetworkChange(state)

InitLive == Init /\ Queued /\ Reliable /\ Connected

SpecLive == InitLive /\ [][NextLive]_vars /\ WF_vars(Orchestrator)

\* two callers of processQueue(), one pass each, the same draft queued twice
NextOverlap ==
    \E t \in Tasks :
        \/ task[t].passes = 0 /\ ProcessQueue(t)
        \/ PassStep(t)

InitOverlap == Init /\ QueuedTwice /\ Reliable /\ Connected

SpecOverlap == InitOverlap /\ [][NextOverlap]_vars

\* every queue operation of the UI, one call at a time
NextOps ==
    \/ \E t \in {"t1"} :
          \/ ProcessQueue(t) \/ PassStep(t)
          \/ RetryFailedItems(t) \/ RetryRead(t) \/ RetryUpdate(t)
          \/ ClearCompletedItems(t)
    \/ \E id \in DraftIds, type \in {"stt", "parse", "both"} : AddToQueue(id, type)

InitOps == Init /\ Queued /\ Reliable /\ Connected

SpecOps == InitOps /\ [][NextOps]_vars

\* processQueue() called again and again, every call and client answering
NextRepeat == \E t \in {"t1"} : ProcessQueue(t) \/ PassStep(t)

InitRepeat == Init /\ Queued /\ Reliable /\ Connected

SpecRepeat == InitRepeat /\ [][NextRepeat]_vars /\ WF_vars(NextRepeat)

\* recordings queued at different times while passes run
NextList ==
    \/ \E t \in {"t1"} : ProcessQueue(t) \/ PassStep(t)
    \/ \E id \in DraftIds : AddToQueue(id, "both")
    \/ \E d \in CoarseSteps : Tick(d, MaxTime)

InitList == Init /\ Queued /\ Reliable /\ Connected

SpecList == InitList /\ [][NextList]_vars

\* =================================================================== claims
PassPcs ==
    {"read", "mark", "getDraft", "stt", "saveTranscript", "getDraft2", "parse",
     "saveInvoice", "markCompleted", "catch", "purge"}

InFlight == {t \in Tasks : task[t].op = "syncNow" /\ task[t].pc \in PassPcs}

Registered(ls) == {ls[k] : k \in 1..Len(ls)}

\* a new syncNow() call ran its synchronous prefix in task t during this step
Entered(t) == Free(t) /\ task'[t] # task[t] /\ task'[t].op = "syncNow"

InWindow == TruthyNum(lastSyncAt) /\ now - lastSyncAt[1] < MIN_SYNC_INTERVAL_MS

Busy == Resolved(SyncResult(FALSE, <<>>, <<"Sync already in progress">>))
Skipped == Resolved(SyncResult(TRUE, <<>>, <<>>))
WasOffline == Resolved(SyncResult(FALSE, <<>>, <<"Device is offline">>))

\* C1: at most one processQueue() pass started by syncNow() is in flight at
\* any time, for every interleaving of syncNow() calls.
C1_AtMostOnePass == Cardinality(InFlight) <= 1

\* C2: within the minimum interval after the last completed/error sync a
\* syncNow() call returns {success: true} without a processResult, and no
\* second processQueue() pass is started in that window.
C2_OnePassPerWindow ==
    [][\A t \in Tasks :
        /\ (Entered(t) /\ InWindow) => task'[t].ret = Skipped
        /\ (task[t].pc = "probe" /\ task'[t].pc = "read") => ~InWindow]_vars

\* C3: syncNow() called while the state is syncing returns success: false,
\* starts no pass, notifies no listener and leaves state, lastSyncAt,
\* lastError, the tables and the call in flight as they were.
C3_BusyCallChangesNothing ==
    [][\A t \in Tasks :
        (Entered(t) /\ syncState = "syncing") =>
            /\ task'[t].pc = "done"
            /\ task'[t].ret = Busy
            /\ \A u \in Tasks \ {t} : task'[u] = task[u]
            /\ UNCHANGED <<syncState, lastSyncAt, lastError, inbox, queue, drafts>>]_vars

C3_Witness ==
    /\ syncState = "syncing"
    /\ listeners # <<>>
    /\ \E t \in Tasks : task[t].ret = Busy
    /\ \E u \in Tasks : u \in InFlight

\* the connectivity probe of task t resolved (did not throw) during this step
Probed(t) ==
    /\ task[t].op = "syncNow" /\ task[t].pc = "probe"
    /\ task'[t] # task[t]
    /\ task'[t].ret.kind # "rejected"

\* C4: when the probe reports offline, syncNow() returns success: false with
\* an error, reads and writes no queue row and leaves the sync state and
\* lastSyncAt unchanged.
C4_OfflineTouchesNothing ==
    [][\A t \in Tasks :
        (Probed(t) /\ (~net.isConnected \/ net.isInternetReachable = "false")) =>
            /\ task'[t].pc = "done"
            /\ task'[t].ret = WasOffline
            /\ UNCHANGED <<syncState, lastSyncAt, lastError, queue, drafts>>]_vars

C4_Witness ==
    /\ net = [isConnected |-> TRUE, isInternetReachable |-> "false"]
    /\ \E t \in Tasks : task[t].ret = WasOffline
    /\ PendingIds(queue) # {}

\* C5: a pass sets the state to syncing before processQueue() is called; when
\* processQueue() returns, the state is completed iff result.failed = 0 and
\* otherwise error with "<failed> items failed to sync"; the SyncResult
\* carries the whole result and success = (result.failed = 0).
C5_PassOutcome ==
    [][\A t \in Tasks :
        /\ (task[t].pc = "probe" /\ task'[t].pc = "read") => syncState' = "syncing"
        /\ ( /\ task[t].op = "syncNow" /\ task[t].pc \in PassPcs
             /\ task'[t].pc = "done" /\ task'[t].ret.kind = "resolved"
             /\ task'[t].ret.val[1].processResult # <<>> ) =>
            LET r == task'[t].ret.val[1].processResult[1]
            IN  /\ r = IF task[t].pc = "purge" THEN task[t].result ELSE EmptyResult
                /\ r.processed + r.failed = r.total
                /\ syncState' = IF r.failed = 0 THEN "completed" ELSE "error"
                /\ r.failed > 0 => lastError' = <<ToString(r.failed) \o " items failed to sync">>
                /\ task'[t].ret.val[1].success = (r.failed = 0)
                /\ task'[t].ret.val[1].error = <<>>]_vars

C5_Witness ==
    /\ syncState = "error"
    /\ lastError = <<"1 items failed to sync">>
    /\ \E t \in Tasks :
        /\ task[t].ret.kind = "resolved"
        /\ task[t].ret.val[1].processResult # <<>>
        /\ task[t].ret.val[1].processResult[1].failed = 1
        /\ ~task[t].ret.val[1].success

\* C6: the state moves along idle -> syncing -> {completed | error} -> idle:
\* syncing is entered only from idle, a finished pass having returned the
\* state to idle before the next cycle starts.
C6_SyncingOnlyFromIdle ==
    [][syncState' = "syncing" => syncState \in {"idle", "syncing"}]_vars

\* C6 as amended: a finished pass leaves the state completed or error, the
\* next pass enters syncing directly from there, and only reset() (which also
\* clears lastSyncAt, lastError and the listeners) puts the state back to idle.
C6_IdleOnlyByReset ==
    [][(syncState # "idle" /\ syncState' = "idle") =>
            /\ lastSyncAt' = <<>>
            /\ lastError' = <<>>
            /\ listeners' = <<>>
            /\ ~isAutoSyncEnabled']_vars

C6_Witness ==
    /\ syncState = "syncing"
    /\ lastSyncAt # <<>>
    /\ \E t \in Tasks : t \in InFlight

\* C7: with auto-sync on, online changes that each arrive less than 2000 ms
\* after the previous one leave exactly one timeout pending, due 2000 ms
\* after the last of them; a timeout fires exactly when due and starts exactly
\* one syncNow() call.
C7_BurstFiresOnce ==
    [][/\ (net' # net /\ IsOnline(net'.isConnected, net'.isInternetReachable)
              /\ isAutoSyncEnabled /\ subscriptions > 0) =>
            /\ timers' = {now + 2000}
            /\ syncDebounceTimeout' = <<now + 2000>>
       /\ (timers' # timers /\ net' = net /\ isAutoSyncEnabled' = isAutoSyncEnabled) =>
            /\ timers = {now}
            /\ timers' = {}
            /\ \E t \in Tasks :
                /\ Free(t)
                /\ task'[t].op = "syncNow" /\ task'[t].origin = "debounce"
                /\ \A u \in Tasks \ {t} : task'[u] = task[u]
       /\ (\E t \in Tasks : Entered(t) /\ task'[t].origin = "debounce") =>
            timers' # timers]_vars

C7_Witness ==
    /\ isAutoSyncEnabled
    /\ burst = 2
    /\ timers = {}
    /\ now = 4000
    /\ \E t \in Tasks : task[t].op = "syncNow" /\ task[t].origin = "debounce"

\* C8: every change of the sync state calls every registered listener with
\* the new status snapshot, also those registered after a listener that
\* throws; a listener that is not registered (never added, or unsubscribed)
\* is not called.
C8_ListenersNotified ==
    [][/\ syncState' # syncState =>
            \A l \in Registered(listeners') :
                /\ inbox'[l].status =
                      <<GetSyncStatus(syncState', lastSyncAt', lastError', isAutoSyncEnabled')>>
                /\ inbox'[l].seq # inbox[l].seq
       /\ \A l \in Listeners \ Registered(listeners) : inbox'[l] = inbox[l]]_vars

C8_Witness ==
    /\ listeners = <<"l1", "l2">>
    /\ "l1" \in Throwing
    /\ inbox["l2"].status # <<>>
    /\ inbox["l2"].status[1].state = "completed"
    /\ syncState = "completed"

EntryPoints == {"syncNow", "initialize", "getQueueStatus", "retryFailedItems", "clearAllItems"}

\* C9: syncNow(), initialize(), getQueueStatus(), retryFailedItems() and
\* clearAllItems() never reject, whatever probe or storage call fails.
C9_NeverRejects ==
    \A t \in Tasks : task[t].op \in EntryPoints => task[t].ret.kind # "rejected"

\* C9 as amended: syncNow() and initialize() reject only when their own
\* connectivity probe throws, retryFailedItems() and clearAllItems() re-throw
\* the storage error, getQueueStatus() never rejects; a storage failure in a
\* pass makes syncNow() return {success: false, error} with the state error,
\* so the state is never left in syncing.
C9_RejectsOnlyAsCoded ==
    /\ [](\A t \in Tasks :
            (task[t].op \in EntryPoints /\ task[t].ret.kind = "rejected") =>
                \/ /\ task[t].op \in {"syncNow", "initialize"}
                   /\ task[t].ret.val = <<"Network state unavailable">>
                \/ /\ task[t].op \in {"retryFailedItems", "clearAllItems"}
                   /\ task[t].ret.val = <<"database error">>)
    /\ [][\A t \in Tasks :
            (task[t].op = "syncNow" /\ task[t].pc \in PassPcs /\ task'[t].pc = "done") =>
                /\ task'[t].ret.kind = "resolved"
                /\ syncState' \in {"completed", "error"}
                /\ task'[t].ret.val[1].processResult = <<>> =>
                      /\ ~task'[t].ret.val[1].success
                      /\ task'[t].ret.val[1].error = lastError']_vars

C9_Witness ==
    /\ syncState = "error"
    /\ lastError = <<"database error">>
    /\ \E t \in Tasks :
        task[t].ret = Resolved(SyncResult(FALSE, <<>>, <<"database error">>))

\* C10: every completed queue item of type parse or both refers to a draft
\* whose invoiceData is set.
C10_CompletedHasInvoice ==
    \A id \in DOMAIN queue :
        (queue[id].status = "completed" /\ queue[id].type \in {"parse", "both"}) =>
            /\ queue[id].draftId \in DOMAIN drafts
            /\ drafts[queue[id].draftId].invoiceData # <<>>

\* task t took a step of a processQueue() call (its start included)
PassActs(t) == task'[t] # task[t] /\ task'[t].op = "processQueue"

ClientPcs == {"stt", "parse"}

\* C11: once an item's retryCount has reached MAX_RETRIES, no step of any
\* later processQueue() call changes its status, retryCount or lastError or
\* deletes it, and no pass is ever about to call a client for it.
C11_TerminalFailureIsFinal ==
    [][\A id \in DOMAIN queue : queue[id].retryCount >= MAX_RETRIES =>
          \A t \in Tasks : PassActs(t) =>
              /\ id \in DOMAIN queue'
              /\ queue'[id] = queue[id]
              /\ task'[t].pc \in ClientPcs =>
                     task'[t].pendingItems[task'[t].i].id # id]_vars

C11_Witness ==
    /\ 1 \in DOMAIN queue
    /\ queue[1].status = "failed"
    /\ queue[1].retryCount = MAX_RETRIES
    /\ task["t1"].op = "processQueue" /\ task["t1"].pc = "done"
    /\ task["t1"].passes = MAX_RETRIES + 1
    /\ task["t1"].ret = Resolved(EmptyResult)

\* C12: when retryFailedItems() returns, no queue item has status failed any
\* more (each failed item is pending again, for the next pass to process).
C12_RetryResetsFailed ==
    [][\A t \in Tasks :
          ( /\ task[t].op = "retryFailedItems" /\ task[t].pc # "done"
            /\ task'[t].pc = "done" /\ task'[t].ret.kind = "resolved" ) =>
              \A id \in DOMAIN queue' : queue'[id].status # "failed"]_vars

\* processItem() of task t ends during this step (it returns or throws)
ItemEnds(t) ==
    /\ IsPass(t) /\ task[t].pc \in {"markCompleted", "catch"}
    /\ task'[t].pc \notin {"markCompleted", "catch"}

HasCheckpoint(draft) ==
    draft # <<>> /\ TruthyStr(draft[1].transcript) /\ ~TruthyStr(draft[1].invoiceData)

IsNew(draft) ==
    /\ draft # <<>> /\ TruthyStr(draft[1].audioPath)
    /\ draft[1].transcript = <<>> /\ draft[1].invoiceData = <<>>

\* C13: processing an item of type both whose draft was loaded with a
\* (non-empty) transcript and no invoice makes exactly one extraction call
\* and no transcription call, also when the transcript is the checkpoint of
\* an earlier attempt whose extraction failed.
C13_ResumesAtExtraction ==
    [][\A t \in Tasks :
          ( /\ ItemEnds(t)
            /\ Item(t).type = "both"
            /\ HasCheckpoint(task[t].draft) ) =>
              task[t].calls = [stt |-> 0, parse |-> 1]]_vars

C13_Witness ==
    \E t \in Tasks :
        /\ IsPass(t) /\ task[t].pc = "markCompleted"
        /\ Item(t).type = "both" /\ Item(t).retryCount > 0
        /\ Item(t).lastError = <<"Rate limit exceeded">>
        /\ HasCheckpoint(task[t].draft)
        /\ task[t].calls = [stt |-> 0, parse |-> 1]

\* the pass of task t returns its summary during this step
PassReturns(t) ==
    /\ task[t].op = "processQueue" /\ task[t].pc = "purge"
    /\ task'[t].pc = "done" /\ task'[t].ret.kind = "resolved"

Succeeded(item) ==
    /\ item.type = "both"
    /\ item.draftId \in DOMAIN drafts'
    /\ TruthyStr(drafts'[item.draftId].transcript)
    /\ TruthyStr(drafts'[item.draftId].invoiceData)

\* C14: when processQueue() returns after both clients succeeded for an item
\* of type both, that item is in the queue with status completed.
C14_CompletedAfterPass ==
    [][\A t \in Tasks : PassReturns(t) =>
          \A k \in 1..Len(task[t].pendingItems) :
              LET item == task[t].pendingItems[k]
              IN  (task'[t].ret.val[1].failed = 0 /\ Succeeded(item)) =>
                      /\ item.id \in DOMAIN queue'
                      /\ queue'[item.id].status = "completed"]_vars

\* C14 as amended: for an item of type both whose draft has audio, no
\* transcript and no invoice, when both clients succeed the draft transcript
\* is the transcription result, invoiceData is the serialized invoice and the
\* item is marked completed; the purge that ends the same pass then deletes
\* it, so that when processQueue() returns the item is no longer in the queue.
C14_CompletedThenPurged ==
    [][\A t \in Tasks :
          /\ ( /\ ItemEnds(t) /\ task[t].pc = "markCompleted"
               /\ Item(t).type = "both" /\ IsNew(task[t].draft)
               /\ task[t].calls = [stt |-> 1, parse |-> 1] ) =>
                 /\ queue'[Item(t).id].status = "completed"
                 /\ queue'[Item(t).id].retryCount = Item(t).retryCount
                 /\ queue'[Item(t).id].lastError = <<>>
                 /\ drafts'[Item(t).draftId].transcript = <<"2 hours at 500">>
                 /\ drafts'[Item(t).draftId].invoiceData = <<"{total:1000}">>
          /\ PassReturns(t) =>
                 /\ \A id \in DOMAIN queue : queue[id].status = "completed" => id \notin DOMAIN queue'
                 /\ \A id \in DOMAIN queue' : queue'[id] = queue[id] /\ queue[id].status # "completed"
                 /\ drafts' = drafts]_vars

C14_Witness ==
    /\ task["t1"].op = "processQueue" /\ task["t1"].pc = "done"
    /\ task["t1"].passes = 1
    /\ task["t1"].ret = Resolved([processed |-> 1, failed |-> 0, total |-> 1, errors |-> <<>>])
    /\ DOMAIN queue = {}
    /\ drafts["d1"].transcript = <<"2 hours at 500">>
    /\ drafts["d1"].invoiceData = <<"{total:1000}">>

Min(a, b) == IF a < b THEN a ELSE b

\* C15: between passes, an item queued before the first pass and attempted
\* in every pass so far without success has retryCount = min(passes, 3); it
\* is pending with retryCount 1 or 2 after one or two passes and failed with
\* retryCount 3 from the third pass on; when its last attempt failed in
\* extraction, the draft still has its transcript and invoiceData is null.
C15_ThreeStrikes ==
    \A t \in {"t1"} :
        (Free(t) /\ 1 \in DOMAIN queue) =>
            /\ queue[1].retryCount = Min(task[t].passes, MAX_RETRIES)
            /\ queue[1].status = IF task[t].passes >= MAX_RETRIES THEN "failed" ELSE "pending"
            /\ queue[1].lastError = <<"Rate limit exceeded">> =>
                   /\ TruthyStr(drafts[queue[1].draftId].transcript)
                   /\ drafts[queue[1].draftId].invoiceData = <<>>

C15_Witness ==
    /\ Free("t1") /\ task["t1"].passes = MAX_RETRIES
    /\ 1 \in DOMAIN queue
    /\ queue[1].status = "failed" /\ queue[1].retryCount = MAX_RETRIES
    /\ queue[1].lastError = <<"Rate limit exceeded">>
    /\ drafts["d1"].transcript = <<"2 hours at 500">>
    /\ drafts["d1"].invoiceData = <<>>

\* C16: when processItem() finds that the draft of its item does not exist,
\* the item is marked failed by that attempt.
C16_MissingDraftIsFatal ==
    [][\A t \in Tasks :
          ( /\ ItemEnds(t) /\ task[t].pc = "catch"
            /\ task[t].error = <<"Draft " \o Item(t).draftId \o " not found">>
            /\ Item(t).id \in DOMAIN queue' ) =>
              queue'[Item(t).id].status = "failed"]_vars

\* C17: processQueue() throws only when its initial queue read fails.
C17_ThrowsOnlyOnRead ==
    [][\A t \in Tasks :
          ( /\ task[t].op = "processQueue" /\ task[t].pc # "done"
            /\ task'[t].pc = "done" /\ task'[t].ret.kind = "rejected" ) =>
              task[t].pc = "read"]_vars

\* the queue read of a pass resolved during this step, with these items
Listed(t) == IF task'[t].pc = "mark" THEN task'[t].pendingItems ELSE <<>>

Lists(t) ==
    /\ IsPass(t) /\ task[t].pc = "read"
    /\ task'[t] # task[t]
    /\ task'[t].pc = "mark" \/ task'[t].ret.kind = "resolved"

\* C18: getPendingQueueItems() returns exactly the items whose status is not
\* completed (pending, processing and failed), oldest first.
C18_ListsAllNotCompleted ==
    [][\A t \in Tasks : Lists(t) =>
          {Listed(t)[k].id : k \in 1..Len(Listed(t))} =
              {id \in DOMAIN queue : queue[id].status # "completed"}]_vars

\* C18 as amended: getPendingQueueItems() returns exactly the rows whose
\* status is pending, each once and as stored, ordered by createdAt
\* ascending; failed and processing rows are not returned.
C18_ListsPendingOldestFirst ==
    [][\A t \in Tasks : Lists(t) =>
          LET items == Listed(t)
          IN  /\ {items[k].id : k \in 1..Len(items)} =
                     {id \in DOMAIN queue : queue[id].status = "pending"}
              /\ Len(items) = Cardinality({id \in DOMAIN queue : queue[id].status = "pending"})
              /\ \A k \in 1..Len(items) : items[k] = queue[items[k].id]
              /\ \A a, b \in 1..Len(items) :
                     a < b => items[a].createdAt <= items[b].createdAt]_vars

C18_Witness ==
    \E t \in Tasks :
        /\ IsPass(t) /\ task[t].pc = "mark" /\ task[t].i = 1
        /\ Len(task[t].pendingItems) = 2
        /\ task[t].pendingItems[1].createdAt < task[t].pendingItems[2].createdAt
        /\ task[t].pendingItems[1].retryCount > 0

\* C19: getQueueStatus() returns the number of queue items in status
\* pending, processing and failed and their sum as total, or all zeros when
\* the queue read fails.
C19_StatusCounts ==
    [][\A t \in Tasks :
          (task'[t] # task[t] /\ task'[t].op = "getQueueStatus") =>
              LET n(status) == Cardinality({id \in DOMAIN queue : queue[id].status = status})
              IN  \/ task'[t].ret =
                        Resolved([pending |-> n("pending"), processing |-> n("processing"),
                                  failed |-> n("failed"),
                                  total |-> n("pending") + n("processing") + n("failed")])
                  \/ /\ faults' < faults
                     /\ task'[t].ret =
                            Resolved([pending |-> 0, processing |-> 0, failed |-> 0,
                                      total |-> 0])]_vars

\* C20: when a processQueue() pass returns normally the queue holds no
\* completed item, also when the pass found nothing pending; and no step of
\* a pass or of clearCompletedItems() deletes a failed item.
C20_NoCompletedAfterPass ==
    [][\A t \in Tasks :
          /\ ( /\ task[t].op = "processQueue" /\ task[t].pc # "done"
               /\ task'[t].pc = "done" /\ task'[t].ret.kind = "resolved" ) =>
                 \A id \in DOMAIN queue' : queue'[id].status # "completed"
          /\ \A id \in DOMAIN queue : queue[id].status = "failed" => id \in DOMAIN queue']_vars

\* task t took a step inside the loop of a pass (after the queue read)
InLoop(t) ==
    /\ IsPass(t) /\ task[t].pc \in PassPcs \ {"read"}
    /\ task'[t] # task[t]

C22_ResumesAfterCrash ==
    [][\A t \in Tasks : Lists(t) =>
          \A id \in DOMAIN queue :
              queue[id].status = "processing" =>
                  \E k \in 1..Len(Listed(t)) : Listed(t)[k].id = id]_vars

PermanentErrors == {o.error : o \in {x \in SttOutcomes : ~x.ok /\ ~x.retryable}}

\* C24: an attempt that ends with a permanent (non-retryable) client error
\* does not raise the item's retryCount.
C24_PermanentFailureKeepsBudget ==
    [][\A t \in Tasks :
          ( /\ ItemEnds(t) /\ task[t].pc = "catch"
            /\ task[t].error # <<>> /\ task[t].error[1] \in PermanentErrors ) =>
              queue'[Item(t).id].retryCount = queue[Item(t).id].retryCount]_vars

RetryPending ==
    /\ \A t \in Tasks : Free(t)
    /\ \E id \in DOMAIN queue :
          /\ queue[id].status = "pending"
          /\ queue[id].retryCount > 0 /\ queue[id].retryCount < MAX_RETRIES

Attempting == \E t \in Tasks : IsPass(t) /\ task[t].pc = "mark"

\* C25: whenever a pass has left an item pending for retry, the orchestrator
\* eventually starts another pass that attempts it, without a connectivity
\* change or an explicit syncNow() call being needed.
C25_RetryIsScheduled == RetryPending ~> Attempting

\* task t is calling the given client for a draft that already has that
\* client's result, or while task u calls it (or saves its result) for
\* another queue item of the same draft
Duplicates(t, u, at, saving, field) ==
    /\ IsPass(t) /\ task[t].pc = at
    /\ Item(t).draftId \in DOMAIN drafts
    /\ \/ TruthyStr(drafts[Item(t).draftId][field])
       \/ /\ u # t /\ IsPass(u) /\ task[u].pc \in {at, saving}
          /\ Item(u).draftId = Item(t).draftId
          /\ Item(u).id # Item(t).id

\* C26: with two queue items for one draft, no client is called for the
\* draft a second time once it has been called for it with success, in one
\* pass or in overlapping passes.
C26_ClientsOncePerDraft ==
    \A t, u \in Tasks :
        /\ ~Duplicates(t, u, "stt", "saveTranscript", "transcript")
        /\ ~Duplicates(t, u, "parse", "saveInvoice", "invoiceData")

NoPassInFlight == \A t \in Tasks : IsPass(t) => task[t].pc = "done"

C28_CompletedClearsError == syncState = "completed" => lastError = <<>>

AttemptPcs == PassPcs \ {"read", "purge"}

C30_AutoSyncOwnsTimer ==
    /\ [](/\ timers # {} => isAutoSyncEnabled
          /\ Cardinality(timers) <= 1
          /\ timers = {syncDebounceTimeout[k] : k \in 1..Len(syncDebounceTimeout)}
          /\ subscriptions = IF isAutoSyncEnabled THEN 1 ELSE 0
          /\ (networkSubscription # <<>>) = isAutoSyncEnabled)
    /\ [][/\ ((\E t \in Tasks : Entered(t) /\ task'[t].origin = "debounce") =>
                 isAutoSyncEnabled)
           /\ ((~isAutoSyncEnabled /\ net' # net) => (timers' = {}))
           /\ ((isAutoSyncEnabled /\ ~isAutoSyncEnabled') => (timers' = {}))]_vars

C30_Witness ==
    /\ ~isAutoSyncEnabled
    /\ subscriptions = 0 /\ timers = {} /\ syncDebounceTimeout = <<>>
    /\ IsOnline(net.isConnected, net.isInternetReachable)
    /\ now = MaxBurstTime
    /\ \E t \in Tasks : task[t].op = "syncNow" /\ task[t].origin = "debounce"
    /\ \E t \in Tasks : task[t].op = "none"

====
